---- MODULE Spec2Model ----
(***************************************************************************)
(* Model of src/onion_generator/__main__.py: the vanity-address search.    *)
(*                                                                         *)
(* One coordinator process (main), its two daemon display threads          *)
(* (periodic_update, keypress_update) and num_processes worker processes   *)
(* (worker_process) that talk through two multiprocessing queues.          *)
(*                                                                         *)
(* Strings are sequences of one-character strings.  A hostname is          *)
(* abstracted to its first HostLen characters over a two-letter part of    *)
(* the lower-case base32 alphabet; the key blobs of a result are           *)
(* abstracted to the pair (worker, seq) that identifies the key pair.      *)
(* A queue put is atomic (the feeder thread of multiprocessing.Queue is    *)
(* not modelled); a queue is a FIFO sequence.                              *)
(*                                                                         *)
(* The inner loop in which a display thread empties the stats queue is one *)
(* step.  A signal sent to a worker is handled between two of its steps.   *)
(*                                                                         *)
(* Variables whose name starts with "g_" are history (ghost) variables:    *)
(* they record what happened and are never read by an action's guard.      *)
(*                                                                         *)
(* Specifications:                                                         *)
(*   Spec          the whole program with the default number of processes  *)
(*   WorkerSpec    main and one worker, every prefix list, both signals     *)
(*   PoolSpec      main and a pool of MaxProcs workers                      *)
(*   FairPoolSpec  PoolSpec with main's own steps weakly fair               *)
(*   CodecSpec     one call of generate_address followed through            *)
(*                 expand_secret_key, encode_public_key and the two blobs,  *)
(*                 on byte strings of the real lengths; the hash            *)
(*                 primitives return any digest                             *)
(***************************************************************************)
EXTENDS Integers, Sequences, FiniteSets, TLC

(* ---------------------------------------------------------------- bounds *)

\* Largest number of worker processes an input may ask for.
MaxProcs == 2

\* Loop iterations of worker_process the model follows, all workers together
\* (SkipAhead counts as one).
MaxIter == 2

\* Times the display threads collect the pending messages, both together.
MaxTicks == 2

\* Modelled length of a hostname.
HostLen == 2

\* Key lengths the codec is called with: KeyLen less and more KeySlack.
KeySlack == 1

\* Largest difference between two neighbouring bytes of a modelled key.
MaxStep == 1

(* ------------------------------------------------------ program constants *)

\* line 106: if local_generated % 1000 == 0
BatchSize == 1000

\* line 196: os.cpu_count() or 4
DefaultProcs == 4

\* lines 33-34: the length of a raw Ed25519 key
KeyLen == 32

\* line 63: the length of a SHA-512 digest
Sha512Len == 64

\* line 56: the length of a SHA3-256 digest
Sha3Len == 32

\* An optional integer is a sequence: <<>> is None, <<n>> is the integer n.
None == <<>>
Some(n) == <<n>>

(* ---------------------------------------------------------------- strings *)

Whitespace == {" "}

UpperLetters ==
    <<"A", "B", "C", "D", "E", "F", "G", "H", "I", "J", "K", "L", "M",
      "N", "O", "P", "Q", "R", "S", "T", "U", "V", "W", "X", "Y", "Z">>

LowerLetters ==
    <<"a", "b", "c", "d", "e", "f", "g", "h", "i", "j", "k", "l", "m",
      "n", "o", "p", "q", "r", "s", "t", "u", "v", "w", "x", "y", "z">>

\* str.lower() on one character
LowerChar(c) ==
    IF \E i \in 1..Len(UpperLetters) : UpperLetters[i] = c
    THEN LowerLetters[CHOOSE i \in 1..Len(UpperLetters) : UpperLetters[i] = c]
    ELSE c

\* str.lower()
Lower(s) == [i \in 1..Len(s) |-> LowerChar(s[i])]

RECURSIVE LStrip(_)
LStrip(s) ==
    IF s # <<>> /\ Head(s) \in Whitespace THEN LStrip(Tail(s)) ELSE s

RECURSIVE RStrip(_)
RStrip(s) ==
    IF s # <<>> /\ s[Len(s)] \in Whitespace
    THEN RStrip(SubSeq(s, 1, Len(s) - 1))
    ELSE s

\* str.strip(): leading and trailing whitespace removed
Strip(s) == RStrip(LStrip(s))

\* str.startswith(prefix)
StartsWith(s, p) ==
    /\ Len(p) <= Len(s)
    /\ SubSeq(s, 1, Len(p)) = p

\* line 190: prefixes = [prefix.strip().lower() for prefix in args.prefixes]
NormalizeMutNoStrip(raw) == [i \in 1..Len(raw) |-> Lower(raw[i])]
Normalize(raw) == [i \in 1..Len(raw) |-> Lower(Strip(raw[i]))]

\* lines 97-98: the for loop over prefixes, from index i on; the index of the
\* first prefix the hostname starts with, 0 when the loop runs to its end.
RECURSIVE ScanFrom(_, _, _)
ScanFrom(host, pfx, i) ==
    IF i > Len(pfx) THEN 0
    ELSE IF StartsWith(host, pfx[i]) THEN i
    ELSE ScanFrom(host, pfx, i + 1)

FirstHit(host, pfx) == ScanFrom(host, pfx, 1)

(* ----------------------------------------------------------------- inputs *)

HostChars == {"a", "b"}

\* The hostnames generate_address can return (abstracted, see the header).
Hostnames == [1..HostLen -> HostChars]

\* The positional arguments (args.prefixes) the model is run with.  The
\* empty list is what line 186 guards against.
ArgPrefixLists ==
    { <<>>,
      << <<"a", "b">>, <<" ", "A">> >>,
      << <<"B", " ">>, <<"b", "a", "b">> >> }

\* One of them, with the empty list.
OnePrefixList == { <<>>, << <<"a", "b">>, <<" ", "A">> >> }

\* --threads: absent, or an integer
ArgThreads == {None} \cup {Some(n) : n \in -1..MaxProcs}

\* --threads absent (the default)
DefaultThreads == {None}

\* the values of --threads that give one worker: negative, zero and one
SingleThreads == {Some(n) : n \in -1..1}

\* --threads asking for the largest pool
PoolThreads == {Some(MaxProcs)}

\* os.cpu_count() as the model draws it: a machine with one processor
CpuCounts == {Some(1)}

\* lines 193-196
NumProcessesMutNoClamp(threads, cpu) ==
    IF threads # None THEN threads[1]
    ELSE IF cpu = None \/ cpu = Some(0) THEN DefaultProcs ELSE cpu[1]
NumProcesses(threads, cpu) ==
    IF threads # None
    THEN (IF threads[1] > 1 THEN threads[1] ELSE 1)
    ELSE IF cpu = None \/ cpu = Some(0) THEN DefaultProcs ELSE cpu[1]

Procs == 0..(MaxProcs - 1)

Signals == {"SIGINT", "SIGTERM"}

(* ------------------------------------------------------------------ state *)

VARIABLES
    argPrefixes,      \* args.prefixes, as given on the command line
    argThreads,       \* args.threads
    mainPc,           \* position of main()
    prefixes,         \* line 190
    num_processes,    \* lines 193-196
    idx,              \* index of the for loops of main (lines 211, 236, 240)
    stop_event,       \* line 203
    result_queue,     \* line 201
    stats_queue,      \* line 202
    printed,          \* the results main has printed (lines 226-229), in order
    wpc,              \* position of each worker process
    local_generated,  \* line 81, per worker
    addr,             \* line 94, per worker: the hostname of the candidate
    hit,              \* lines 97-98, per worker: index of the prefix that hit, or 0
    iter,             \* loop iterations followed so far, all workers together
    pending,          \* signals sent to a worker and not yet handled
    ctx,              \* where a SystemExit raised by the handler lands
    pPc,              \* position of periodic_update
    pGenerated,       \* line 133
    pFound,           \* line 134
    kPc,              \* position of keypress_update
    kGenerated,       \* line 158
    kFound,           \* line 159
    g_gen,            \* candidates generated and counted (line 95), per worker
    g_sent,           \* sum of the generated deltas put on stats_queue, per worker
    g_found,          \* sum of the found deltas put on stats_queue, per worker
    g_results,        \* results put on result_queue, per worker
    g_signalled,      \* whether signal_handler has run, per worker
    g_matched,        \* candidates found to start with a prefix (line 98), per worker
    ticks,            \* times a display thread has collected the pending messages
    g_taken,          \* sums of the deltas taken off stats_queue: <<generated, found>>
    cPc,              \* position of a call of generate_address followed alone
    private_bytes,    \* line 33
    public_bytes,     \* line 34
    expanded_secret_key,  \* line 37
    checksum,         \* line 56
    onion_address,    \* line 40: the hostname
    public,           \* line 49: the public blob, base64 text
    private           \* line 50: the secret blob, base64 text

mainVars   == <<argPrefixes, argThreads, mainPc, prefixes, num_processes, idx,
                stop_event, printed>>
queueVars  == <<result_queue, stats_queue>>
workerVars == <<wpc, local_generated, addr, hit, iter, pending, ctx>>
periodVars == <<pPc, pGenerated, pFound>>
keyVars    == <<kPc, kGenerated, kFound>>
ghostVars  == <<g_gen, g_sent, g_found, g_results, g_signalled, g_matched>>

takenVars  == <<ticks, g_taken>>
codecVars  == <<cPc, private_bytes, public_bytes, expanded_secret_key, checksum,
                onion_address, public, private>>

vars == <<mainVars, queueVars, workerVars, periodVars, keyVars, ghostVars, takenVars, codecVars>>

\* positions of a worker inside the try block of lines 92-108
TryPcs == {"generate", "count", "match", "report", "deliver", "reset",
           "check", "flush", "clear"}
\* positions inside signal_handler (lines 84-87)
HandlerPcs == {"h_put", "h_exit"}
\* positions inside the except clause (lines 110-113)
ExceptPcs == {"e_put", "e_exit"}
\* a process that has ended
DeadPcs == {"exited", "crashed", "killed"}
AlivePcs == {"init"} \cup TryPcs \cup HandlerPcs \cup ExceptPcs

Spawned == {w \in Procs : wpc[w] # "unspawned"}

\* The main process is gone: its daemon threads are gone with it.
MainGone == mainPc \in {"exit1", "stopped"}

\* lines 232-245
ShutdownPcs == {"interrupted", "terminate", "join", "kill", "done"}

\* ('update', gen_count, found_count); late is history: the message was put
\* after the coordinator received the cancellation signal.
StatsMsg(g, f) ==
    [type |-> "update", gen |-> g, found |-> f,
     late |-> (mainPc \in ShutdownPcs \cup {"stopped"})]

\* stats_queue.put(('update', g, f)) by worker w
PutStats(w, g, f) ==
    /\ stats_queue' = Append(stats_queue, StatsMsg(g, f))
    /\ g_sent' = [g_sent EXCEPT ![w] = @ + g]
    /\ g_found' = [g_found EXCEPT ![w] = @ + f]

\* The state when main() is entered with the arguments parsed (line 183),
\* for the argument lists and --threads values given.
ProgramInit(lists, threads) ==
    /\ argPrefixes \in lists
    /\ argThreads \in threads
    /\ mainPc = "start"
    /\ prefixes = <<>>
    /\ num_processes = 0
    /\ idx = 0
    /\ stop_event = FALSE
    /\ result_queue = <<>>
    /\ stats_queue = <<>>
    /\ printed = <<>>
    /\ wpc = [w \in Procs |-> "unspawned"]
    /\ local_generated = [w \in Procs |-> 0]
    /\ addr = [w \in Procs |-> <<>>]
    /\ hit = [w \in Procs |-> 0]
    /\ iter = 0
    /\ pending = [w \in Procs |-> {}]
    /\ ctx = [w \in Procs |-> "try"]
    /\ pPc = "idle"
    /\ pGenerated = 0
    /\ pFound = 0
    /\ kPc = "idle"
    /\ kGenerated = 0
    /\ kFound = 0
    /\ g_gen = [w \in Procs |-> 0]
    /\ g_sent = [w \in Procs |-> 0]
    /\ g_found = [w \in Procs |-> 0]
    /\ g_results = [w \in Procs |-> 0]
    /\ g_signalled = [w \in Procs |-> FALSE]
    /\ g_matched = [w \in Procs |-> 0]
    /\ ticks = 0
    /\ g_taken = <<0, 0>>

\* No call of the codec is followed alone.
CodecIdle ==
    /\ cPc = "idle"
    /\ private_bytes = <<>>
    /\ public_bytes = <<>>
    /\ expanded_secret_key = <<>>
    /\ checksum = <<>>
    /\ onion_address = <<>>
    /\ public = <<>>
    /\ private = <<>>

InitWith(lists, threads) == ProgramInit(lists, threads) /\ CodecIdle

(* ------------------------------------------------------------------- main *)

\* lines 186-188: no prefix, error, sys.exit(1)
MainReject ==
    /\ mainPc = "start"
    /\ argPrefixes = <<>>
    /\ mainPc' = "exit1"
    /\ UNCHANGED <<argPrefixes, argThreads, prefixes, num_processes, idx,
                   stop_event, printed>>
    /\ UNCHANGED <<queueVars, workerVars, periodVars, keyVars, ghostVars, takenVars, codecVars>>

\* lines 190-203
MainConfigure ==
    /\ mainPc = "start"
    /\ argPrefixes # <<>>
    /\ prefixes' = Normalize(argPrefixes)
    /\ \E cpu \in CpuCounts : num_processes' = NumProcesses(argThreads, cpu)
    /\ mainPc' = "monitors"
    /\ UNCHANGED <<argPrefixes, argThreads, idx, stop_event, printed>>
    /\ UNCHANGED <<queueVars, workerVars, periodVars, keyVars, ghostVars, takenVars, codecVars>>

\* lines 206-207: the two daemon threads start
MainStartMonitors ==
    /\ mainPc = "monitors"
    /\ pPc' = "loop"
    /\ kPc' = "start"
    /\ mainPc' = "spawn"
    /\ idx' = 0
    /\ UNCHANGED <<argPrefixes, argThreads, prefixes, num_processes,
                   stop_event, printed>>
    /\ UNCHANGED <<pGenerated, pFound, kGenerated, kFound>>
    /\ UNCHANGED <<queueVars, workerVars, ghostVars, takenVars, codecVars>>

\* lines 211-218: one turn of the loop that starts the workers
MainSpawn ==
    /\ mainPc = "spawn"
    /\ idx < num_processes
    /\ wpc' = [wpc EXCEPT ![idx] = "init"]
    /\ idx' = idx + 1
    /\ UNCHANGED <<argPrefixes, argThreads, mainPc, prefixes, num_processes,
                   stop_event, printed>>
    /\ UNCHANGED <<local_generated, addr, hit, iter, pending, ctx>>
    /\ UNCHANGED <<queueVars, periodVars, keyVars, ghostVars, takenVars, codecVars>>

\* lines 220-222: the loop of line 211 is over, main enters the try block
MainWait ==
    /\ mainPc = "spawn"
    /\ idx >= num_processes
    /\ mainPc' = "running"
    /\ UNCHANGED <<argPrefixes, argThreads, prefixes, num_processes, idx,
                   stop_event, printed>>
    /\ UNCHANGED <<queueVars, workerVars, periodVars, keyVars, ghostVars, takenVars, codecVars>>

\* line 224: result_queue.get() takes the oldest result
TakeResultMutLast(q) == <<q[Len(q)], SubSeq(q, 1, Len(q) - 1)>>
TakeResult(q) == <<Head(q), Tail(q)>>

\* MainGet with main leaving at the first result
MainGetMutStop ==
    /\ mainPc = "running"
    /\ result_queue # <<>>
    /\ printed' = Append(printed, TakeResult(result_queue)[1])
    /\ result_queue' = TakeResult(result_queue)[2]
    /\ mainPc' = "stopped"
    /\ UNCHANGED <<argPrefixes, argThreads, prefixes, num_processes,
                   idx, stop_event>>
    /\ UNCHANGED <<stats_queue, workerVars, periodVars, keyVars, ghostVars, takenVars, codecVars>>

\* lines 224-229: a result is taken and printed
MainGet ==
    /\ mainPc = "running"
    /\ result_queue # <<>>
    /\ printed' = Append(printed, TakeResult(result_queue)[1])
    /\ result_queue' = TakeResult(result_queue)[2]
    /\ UNCHANGED <<argPrefixes, argThreads, mainPc, prefixes, num_processes,
                   idx, stop_event>>
    /\ UNCHANGED <<stats_queue, workerVars, periodVars, keyVars, ghostVars, takenVars, codecVars>>

\* line 231: KeyboardInterrupt is raised in main while it waits in line 224.
\* group: the interrupt came from the terminal, which sends SIGINT to every
\* process of the foreground group, the workers included.
Interrupt(group) ==
    /\ mainPc = "running"
    /\ mainPc' = "interrupted"
    /\ pending' = [w \in Procs |->
                     IF group /\ wpc[w] \in AlivePcs
                     THEN pending[w] \cup {"SIGINT"}
                     ELSE pending[w]]
    /\ UNCHANGED <<argPrefixes, argThreads, prefixes, num_processes, idx,
                   stop_event, printed>>
    /\ UNCHANGED <<wpc, local_generated, addr, hit, iter, ctx>>
    /\ UNCHANGED <<queueVars, periodVars, keyVars, ghostVars, takenVars, codecVars>>

\* lines 232-233
MainStop ==
    /\ mainPc = "interrupted"
    /\ stop_event' = TRUE
    /\ mainPc' = "terminate"
    /\ idx' = 0
    /\ UNCHANGED <<argPrefixes, argThreads, prefixes, num_processes, printed>>
    /\ UNCHANGED <<queueVars, workerVars, periodVars, keyVars, ghostVars, takenVars, codecVars>>

\* lines 236-237: p.terminate() sends SIGTERM to a process that is alive
MainTerminate ==
    /\ mainPc = "terminate"
    /\ idx < num_processes
    /\ pending' = [pending EXCEPT ![idx] =
                     IF wpc[idx] \in AlivePcs THEN @ \cup {"SIGTERM"} ELSE @]
    /\ idx' = idx + 1
    /\ UNCHANGED <<argPrefixes, argThreads, mainPc, prefixes, num_processes,
                   stop_event, printed>>
    /\ UNCHANGED <<wpc, local_generated, addr, hit, iter, ctx>>
    /\ UNCHANGED <<queueVars, periodVars, keyVars, ghostVars, takenVars, codecVars>>

\* line 240: the loop of line 236 is over
MainBeginJoin ==
    /\ mainPc = "terminate"
    /\ idx >= num_processes
    /\ mainPc' = "join"
    /\ idx' = 0
    /\ UNCHANGED <<argPrefixes, argThreads, prefixes, num_processes,
                   stop_event, printed>>
    /\ UNCHANGED <<queueVars, workerVars, periodVars, keyVars, ghostVars, takenVars, codecVars>>

\* line 241: p.join(timeout=2) returns when the process has ended, and also
\* when the two seconds are over
JoinReturnsMutNoTimeout(alive) == ~alive
JoinReturns(alive) == TRUE

\* lines 241-242: join, then the is_alive() test
MainJoin ==
    /\ mainPc = "join"
    /\ idx < num_processes
    /\ JoinReturns(wpc[idx] \in AlivePcs)
    /\ IF wpc[idx] \in AlivePcs
       THEN mainPc' = "kill" /\ idx' = idx
       ELSE mainPc' = "join" /\ idx' = idx + 1
    /\ UNCHANGED <<argPrefixes, argThreads, prefixes, num_processes,
                   stop_event, printed>>
    /\ UNCHANGED <<queueVars, workerVars, periodVars, keyVars, ghostVars, takenVars, codecVars>>

\* line 243: p.kill(); SIGKILL ends a process that is still alive
MainKill ==
    /\ mainPc = "kill"
    /\ wpc' = [wpc EXCEPT ![idx] = IF @ \in AlivePcs THEN "killed" ELSE @]
    /\ pending' = [pending EXCEPT ![idx] = {}]
    /\ addr' = [addr EXCEPT ![idx] = IF wpc[idx] \in AlivePcs THEN <<>> ELSE @]
    /\ hit' = [hit EXCEPT ![idx] = IF wpc[idx] \in AlivePcs THEN 0 ELSE @]
    /\ mainPc' = "join"
    /\ idx' = idx + 1
    /\ UNCHANGED <<argPrefixes, argThreads, prefixes, num_processes,
                   stop_event, printed>>
    /\ UNCHANGED <<local_generated, iter, ctx>>
    /\ UNCHANGED <<queueVars, periodVars, keyVars, ghostVars, takenVars, codecVars>>

\* line 245: the loop of line 240 is over; main returns and the process ends
MainDone ==
    /\ mainPc = "join"
    /\ idx >= num_processes
    /\ mainPc' = "stopped"
    /\ UNCHANGED <<argPrefixes, argThreads, prefixes, num_processes, idx,
                   stop_event, printed>>
    /\ UNCHANGED <<queueVars, workerVars, periodVars, keyVars, ghostVars, takenVars, codecVars>>

(* ---------------------------------------------------------------- workers *)

\* addr and the loop variable of line 97 are live only within one turn of the
\* loop of line 93: line 94 overwrites addr and line 97 restarts the for loop
\* before either is read again, and neither is read once the process unwinds.
\* The model forgets them when they die.
EndTurn(w) ==
    /\ addr' = [addr EXCEPT ![w] = <<>>]
    /\ hit' = [hit EXCEPT ![w] = 0]

\* Frame of an action of worker w that leaves main and the display threads alone.
WorkerFrame ==
    /\ UNCHANGED <<mainVars, periodVars, keyVars, takenVars, codecVars>>

\* lines 81-90: local_generated = 0, the two handlers are installed
WorkerInit(w) ==
    /\ wpc[w] = "init"
    /\ pending[w] = {}
    /\ wpc' = [wpc EXCEPT ![w] = "generate"]
    /\ local_generated' = [local_generated EXCEPT ![w] = 0]
    /\ UNCHANGED <<addr, hit, iter, pending, ctx>>
    /\ UNCHANGED <<queueVars, ghostVars>>
    /\ WorkerFrame

\* A signal that reaches the process before line 89: the handlers are not yet
\* installed and the default disposition ends the process.
SignalDefault(w) ==
    /\ wpc[w] = "init"
    /\ pending[w] # {}
    /\ wpc' = [wpc EXCEPT ![w] = "killed"]
    /\ pending' = [pending EXCEPT ![w] = {}]
    /\ UNCHANGED <<local_generated, addr, hit, iter, ctx>>
    /\ UNCHANGED <<queueVars, ghostVars>>
    /\ WorkerFrame

\* line 94: generate_address() returns a candidate
Generate(w, h) ==
    /\ wpc[w] = "generate"
    /\ iter < MaxIter
    /\ addr' = [addr EXCEPT ![w] = h]
    /\ iter' = iter + 1
    /\ wpc' = [wpc EXCEPT ![w] = "count"]
    /\ UNCHANGED <<local_generated, hit, pending, ctx>>
    /\ UNCHANGED <<queueVars, ghostVars>>
    /\ WorkerFrame

\* line 94: the key-generation primitive raises; the exception is neither
\* KeyboardInterrupt nor SystemExit, so line 110 does not catch it and the
\* process ends with the traceback.
GenerateFail(w) ==
    /\ wpc[w] = "generate"
    /\ wpc' = [wpc EXCEPT ![w] = "crashed"]
    /\ pending' = [pending EXCEPT ![w] = {}]
    /\ UNCHANGED <<local_generated, addr, hit, iter, ctx>>
    /\ UNCHANGED <<queueVars, ghostVars>>
    /\ WorkerFrame

\* line 95: the candidate is counted
Count(w) ==
    /\ wpc[w] = "count"
    /\ local_generated' = [local_generated EXCEPT ![w] = @ + 1]
    /\ g_gen' = [g_gen EXCEPT ![w] = @ + 1]
    /\ wpc' = [wpc EXCEPT ![w] = "match"]
    /\ UNCHANGED <<addr, hit, iter, pending, ctx>>
    /\ UNCHANGED <<queueVars, g_sent, g_found, g_results, g_signalled, g_matched>>
    /\ WorkerFrame

\* lines 97-98: the prefixes are tried in order up to the first hit
Match(w) ==
    /\ wpc[w] = "match"
    /\ hit' = [hit EXCEPT ![w] = FirstHit(addr[w], prefixes)]
    /\ wpc' = [wpc EXCEPT ![w] = IF hit'[w] # 0 THEN "report" ELSE "check"]
    /\ g_matched' = [g_matched EXCEPT ![w] = IF hit'[w] # 0 THEN @ + 1 ELSE @]
    /\ UNCHANGED <<local_generated, addr, iter, pending, ctx>>
    /\ UNCHANGED <<queueVars, g_gen, g_sent, g_found, g_results, g_signalled>>
    /\ WorkerFrame

\* line 100
Report(w) ==
    /\ wpc[w] = "report"
    /\ PutStats(w, local_generated[w], 1)
    /\ wpc' = [wpc EXCEPT ![w] = "deliver"]
    /\ UNCHANGED <<local_generated, addr, hit, iter, pending, ctx>>
    /\ UNCHANGED <<result_queue, g_gen, g_results, g_signalled, g_matched>>
    /\ WorkerFrame

\* line 101: result_queue.put(addr); the result is abstracted to the identity
\* of its key pair: the worker that generated it and its number there
Deliver(w) ==
    /\ wpc[w] = "deliver"
    /\ result_queue' = Append(result_queue,
           [worker |-> w, seq |-> g_results[w] + 1])
    /\ g_results' = [g_results EXCEPT ![w] = @ + 1]
    /\ wpc' = [wpc EXCEPT ![w] = "reset"]
    /\ UNCHANGED <<local_generated, addr, hit, iter, pending, ctx>>
    /\ UNCHANGED <<stats_queue, g_gen, g_sent, g_found, g_signalled, g_matched>>
    /\ WorkerFrame

\* Reset with the assignment of line 102 left out
ResetMutKeep(w) ==
    /\ wpc[w] = "reset"
    /\ wpc' = [wpc EXCEPT ![w] = "check"]
    /\ UNCHANGED <<local_generated, addr, hit, iter, pending, ctx>>
    /\ UNCHANGED <<queueVars, ghostVars>>
    /\ UNCHANGED <<mainVars, periodVars, keyVars, takenVars, codecVars>>

\* Reset with the break of line 103 left out: the for loop goes on with the
\* prefixes after the one that hit
ResetMutNoBreak(w) ==
    /\ wpc[w] = "reset"
    /\ local_generated' = [local_generated EXCEPT ![w] = 0]
    /\ hit' = [hit EXCEPT ![w] = ScanFrom(addr[w], prefixes, hit[w] + 1)]
    /\ wpc' = [wpc EXCEPT ![w] = IF hit'[w] # 0 THEN "report" ELSE "check"]
    /\ UNCHANGED <<addr, iter, pending, ctx>>
    /\ UNCHANGED <<queueVars, ghostVars>>
    /\ UNCHANGED <<mainVars, periodVars, keyVars, takenVars, codecVars>>

\* lines 102-103: the buffer is reset, break leaves the for loop
Reset(w) ==
    /\ wpc[w] = "reset"
    /\ local_generated' = [local_generated EXCEPT ![w] = 0]
    /\ wpc' = [wpc EXCEPT ![w] = "check"]
    /\ UNCHANGED <<addr, hit, iter, pending, ctx>>
    /\ UNCHANGED <<queueVars, ghostVars>>
    /\ WorkerFrame

\* line 106: local_generated % 1000 == 0
BatchDue(n) == n % BatchSize = 0

\* line 106; when the test fails the turn is over (see EndTurn)
Check(w) ==
    /\ wpc[w] = "check"
    /\ IF BatchDue(local_generated[w])
       THEN /\ wpc' = [wpc EXCEPT ![w] = "flush"]
            /\ UNCHANGED <<addr, hit>>
       ELSE /\ wpc' = [wpc EXCEPT ![w] = "generate"]
            /\ EndTurn(w)
    /\ UNCHANGED <<local_generated, iter, pending, ctx>>
    /\ UNCHANGED <<queueVars, ghostVars>>
    /\ WorkerFrame

\* line 107
Flush(w) ==
    /\ wpc[w] = "flush"
    /\ PutStats(w, local_generated[w], 0)
    /\ wpc' = [wpc EXCEPT ![w] = "clear"]
    /\ UNCHANGED <<local_generated, addr, hit, iter, pending, ctx>>
    /\ UNCHANGED <<result_queue, g_gen, g_results, g_signalled, g_matched>>
    /\ WorkerFrame

\* line 108, the turn is over
Clear(w) ==
    /\ wpc[w] = "clear"
    /\ local_generated' = [local_generated EXCEPT ![w] = 0]
    /\ wpc' = [wpc EXCEPT ![w] = "generate"]
    /\ EndTurn(w)
    /\ UNCHANGED <<iter, pending, ctx>>
    /\ UNCHANGED <<queueVars, ghostVars>>
    /\ WorkerFrame

\* lines 93-108, repeated: a run of consecutive turns of the loop whose
\* candidates match no prefix, from the top of the loop up to the turn before
\* the batch threshold.  Each such turn is Generate, Count, Match (no hit) and
\* Check (not due): it adds one to local_generated and puts nothing on a
\* queue.  h is a candidate that matches no prefix.
SkipAhead(w, h) ==
    /\ wpc[w] = "generate"
    /\ iter < MaxIter
    /\ local_generated[w] < BatchSize - 1
    /\ FirstHit(h, prefixes) = 0
    /\ iter' = iter + 1
    /\ g_gen' = [g_gen EXCEPT ![w] = @ + (BatchSize - 1 - local_generated[w])]
    /\ local_generated' = [local_generated EXCEPT ![w] = BatchSize - 1]
    /\ UNCHANGED <<wpc, addr, hit, pending, ctx>>
    /\ UNCHANGED <<queueVars, g_sent, g_found, g_results, g_signalled, g_matched>>
    /\ WorkerFrame

\* lines 84, 89-90: a pending signal is handled between two steps of the
\* process: signal_handler starts.  The SystemExit it will raise unwinds the
\* interrupted code: from the try block it is caught by line 110, from the
\* except clause it leaves worker_process.
HandleSignal(w, sig) ==
    /\ wpc[w] \in TryPcs \cup HandlerPcs \cup ExceptPcs
    /\ sig \in pending[w]
    /\ pending' = [pending EXCEPT ![w] = @ \ {sig}]
    /\ ctx' = [ctx EXCEPT ![w] =
                 IF wpc[w] \in ExceptPcs THEN "except"
                 ELSE IF wpc[w] \in HandlerPcs THEN @
                 ELSE "try"]
    /\ wpc' = [wpc EXCEPT ![w] = "h_put"]
    /\ g_signalled' = [g_signalled EXCEPT ![w] = TRUE]
    /\ EndTurn(w)
    /\ UNCHANGED <<local_generated, iter>>
    /\ UNCHANGED <<queueVars, g_gen, g_sent, g_found, g_results, g_matched>>
    /\ WorkerFrame

\* lines 85-86
HandlerPut(w) ==
    /\ wpc[w] = "h_put"
    /\ IF local_generated[w] > 0
       THEN PutStats(w, local_generated[w], 0)
       ELSE UNCHANGED <<stats_queue, g_sent, g_found>>
    /\ wpc' = [wpc EXCEPT ![w] = "h_exit"]
    /\ UNCHANGED <<local_generated, addr, hit, iter, pending, ctx>>
    /\ UNCHANGED <<result_queue, g_gen, g_results, g_signalled, g_matched>>
    /\ WorkerFrame

\* line 87: sys.exit(0) raises SystemExit
HandlerExit(w) ==
    /\ wpc[w] = "h_exit"
    /\ wpc' = [wpc EXCEPT ![w] = IF ctx[w] = "try" THEN "e_put" ELSE "exited"]
    /\ pending' = [pending EXCEPT ![w] = IF ctx[w] = "try" THEN @ ELSE {}]
    /\ UNCHANGED <<local_generated, addr, hit, iter, ctx>>
    /\ UNCHANGED <<queueVars, ghostVars>>
    /\ WorkerFrame

\* lines 110-112
ExceptPut(w) ==
    /\ wpc[w] = "e_put"
    /\ IF local_generated[w] > 0
       THEN PutStats(w, local_generated[w], 0)
       ELSE UNCHANGED <<stats_queue, g_sent, g_found>>
    /\ wpc' = [wpc EXCEPT ![w] = "e_exit"]
    /\ UNCHANGED <<local_generated, addr, hit, iter, pending, ctx>>
    /\ UNCHANGED <<result_queue, g_gen, g_results, g_signalled, g_matched>>
    /\ WorkerFrame

\* line 113: sys.exit(0), the process ends
ExceptExit(w) ==
    /\ wpc[w] = "e_exit"
    /\ wpc' = [wpc EXCEPT ![w] = "exited"]
    /\ pending' = [pending EXCEPT ![w] = {}]
    /\ UNCHANGED <<local_generated, addr, hit, iter, ctx>>
    /\ UNCHANGED <<queueVars, ghostVars>>
    /\ WorkerFrame

(* -------------------------------------------------------- display threads *)

\* lines 144-145 and 170-171: generated += gen_count; found += found_count
AccumulateMutSubtract(total, delta) == total - delta
Accumulate(total, delta) == total + delta

\* lines 140-147 and 166-173: the inner loop takes the messages now on the
\* queue, oldest first, until get_nowait() raises Empty; the result is the
\* pair of totals <<generated, found>> after the loop.
RECURSIVE Drain(_, _)
Drain(totals, q) ==
    IF q = <<>> THEN totals
    ELSE IF Head(q).type = "update"
    THEN Drain(<<Accumulate(totals[1], Head(q).gen),
                 Accumulate(totals[2], Head(q).found)>>, Tail(q))
    ELSE Drain(totals, Tail(q))

\* history: the sums of the deltas of the messages of q
RECURSIVE Deltas(_)
Deltas(q) ==
    IF q = <<>> THEN <<0, 0>>
    ELSE <<Head(q).gen + Deltas(Tail(q))[1], Head(q).found + Deltas(Tail(q))[2]>>

\* line 136: while not stop_event.is_set()
PeriodicLoop ==
    /\ ~MainGone
    /\ pPc = "loop"
    /\ pPc' = IF stop_event THEN "done" ELSE "sleep"
    /\ UNCHANGED <<pGenerated, pFound>>
    /\ UNCHANGED <<mainVars, queueVars, workerVars, keyVars, ghostVars, takenVars, codecVars>>

\* lines 137-147: time.sleep(interval) returns and the pending messages are
\* taken
PeriodicTick ==
    /\ ~MainGone
    /\ pPc = "sleep"
    /\ ticks < MaxTicks
    /\ ticks' = ticks + 1
    /\ pGenerated' = Drain(<<pGenerated, pFound>>, stats_queue)[1]
    /\ pFound' = Drain(<<pGenerated, pFound>>, stats_queue)[2]
    /\ g_taken' = <<g_taken[1] + Deltas(stats_queue)[1],
                    g_taken[2] + Deltas(stats_queue)[2]>>
    /\ stats_queue' = <<>>
    /\ pPc' = "print"
    /\ UNCHANGED <<mainVars, result_queue, workerVars, keyVars, ghostVars, codecVars>>

\* line 149: the status line is printed
PeriodicPrint ==
    /\ ~MainGone
    /\ pPc = "print"
    /\ pPc' = "loop"
    /\ UNCHANGED <<pGenerated, pFound>>
    /\ UNCHANGED <<mainVars, queueVars, workerVars, keyVars, ghostVars, takenVars, codecVars>>

\* lines 153-159
KeyStart(tty) ==
    /\ ~MainGone
    /\ kPc = "start"
    /\ kPc' = IF tty THEN "poll" ELSE "disabled"
    /\ UNCHANGED <<kGenerated, kFound>>
    /\ UNCHANGED <<mainVars, queueVars, workerVars, periodVars, ghostVars, takenVars, codecVars>>

\* line 161: stop_event is set, the loop ends
KeyStop ==
    /\ ~MainGone
    /\ kPc = "poll"
    /\ stop_event
    /\ kPc' = "done"
    /\ UNCHANGED <<kGenerated, kFound>>
    /\ UNCHANGED <<mainVars, queueVars, workerVars, periodVars, ghostVars, takenVars, codecVars>>

\* lines 161-173: stop_event is not set and a key was pressed; the pending
\* messages are taken
KeyPress ==
    /\ ~MainGone
    /\ kPc = "poll"
    /\ ~stop_event
    /\ ticks < MaxTicks
    /\ ticks' = ticks + 1
    /\ kGenerated' = Drain(<<kGenerated, kFound>>, stats_queue)[1]
    /\ kFound' = Drain(<<kGenerated, kFound>>, stats_queue)[2]
    /\ g_taken' = <<g_taken[1] + Deltas(stats_queue)[1],
                    g_taken[2] + Deltas(stats_queue)[2]>>
    /\ stats_queue' = <<>>
    /\ kPc' = "print"
    /\ UNCHANGED <<mainVars, result_queue, workerVars, periodVars, ghostVars, codecVars>>

\* line 175: the status line is printed
KeyPrint ==
    /\ ~MainGone
    /\ kPc = "print"
    /\ kPc' = "poll"
    /\ UNCHANGED <<kGenerated, kFound>>
    /\ UNCHANGED <<mainVars, queueVars, workerVars, periodVars, ghostVars, takenVars, codecVars>>

(* ------------------------------------------------------------------ codec *)

\* A byte string is a sequence of integers in 0..255, a text a sequence of
\* one-character strings.  The two hash primitives are not modelled: a call
\* of one returns any digest of its length.

\* int & int and int | int on non-negative integers (lines 65-67)
RECURSIVE BitAnd(_, _)
BitAnd(a, b) ==
    IF a = 0 \/ b = 0 THEN 0
    ELSE (a % 2) * (b % 2) + 2 * BitAnd(a \div 2, b \div 2)

RECURSIVE BitOr(_, _)
BitOr(a, b) ==
    IF a = 0 THEN b
    ELSE IF b = 0 THEN a
    ELSE (IF a % 2 = 1 \/ b % 2 = 1 THEN 1 ELSE 0) + 2 * BitOr(a \div 2, b \div 2)

\* 2 ** n for the shifts of the two encodings
Pow2(n) ==
    <<1, 2, 4, 8, 16, 32, 64, 128, 256, 512, 1024, 2048, 4096, 8192, 16384,
      32768, 65536>>[n + 1]

\* byte i of a byte string; past its end the bytes are 0 (the zero fill of
\* the last group)
ByteAt(data, i) == IF i <= Len(data) THEN data[i] ELSE 0

\* the number made of the w bits of data from bit k on (w at most 8), bits
\* counted from the most significant bit of the first byte
BitsFrom(data, k, w) ==
    LET i    == k \div 8 + 1
        pair == 256 * ByteAt(data, i) + ByteAt(data, i + 1)
    IN  (pair \div Pow2(16 - (k % 8) - w)) % Pow2(w)

\* str.strip(chars): leading and trailing characters of cs removed
RECURSIVE LStripOf(_, _)
LStripOf(s, cs) ==
    IF s # <<>> /\ Head(s) \in cs THEN LStripOf(Tail(s), cs) ELSE s

RECURSIVE RStripOf(_, _)
RStripOf(s, cs) ==
    IF s # <<>> /\ s[Len(s)] \in cs
    THEN RStripOf(SubSeq(s, 1, Len(s) - 1), cs)
    ELSE s

StripOf(s, cs) == RStripOf(LStripOf(s, cs), cs)

\* the alphabet of base64.b32encode
B32Alphabet ==
    UpperLetters \o <<"2", "3", "4", "5", "6", "7">>

\* the alphabet of base64.b64encode
B64Alphabet ==
    UpperLetters \o LowerLetters
    \o <<"0", "1", "2", "3", "4", "5", "6", "7", "8", "9", "+", "/">>

\* base64.b32encode(data).decode('utf-8'): groups of 5 bytes give 8
\* characters of 5 bits each; the last group is filled with zero bits and
\* the characters that hold no data are "="
B32Encode(data) ==
    LET n     == Len(data)
        total == 8 * ((n + 4) \div 5)
        used  == (8 * n + 4) \div 5
    IN  [j \in 1..total |->
            IF j <= used THEN B32Alphabet[BitsFrom(data, 5 * (j - 1), 5) + 1]
            ELSE "="]

\* lines 72-74: base32_encode
Base32Encode(data) == StripOf(B32Encode(data), {"="})

\* base64.b64encode(data).decode(): groups of 3 bytes give 4 characters of 6
\* bits each, filled and padded like base32
B64Encode(data) ==
    LET n     == Len(data)
        total == 4 * ((n + 2) \div 3)
        used  == (8 * n + 5) \div 6
    IN  [j \in 1..total |->
            IF j <= used THEN B64Alphabet[BitsFrom(data, 6 * (j - 1), 6) + 1]
            ELSE "="]

\* line 56: b".onion checksum", and line 58: ".onion"
OnionSuffix == <<".", "o", "n", "i", "o", "n">>

\* lines 56-57: the version byte b"\x03"
VersionByte == 3

\* lines 55-58: encode_public_key, digest being what hashlib.sha3_256
\* returned for b".onion checksum" + public_key + b"\x03"
ChecksumOf(digest) == SubSeq(digest, 1, 2)

EncodePublicKeyMutNoLower(public_key, digest) ==
    LET onion == public_key \o ChecksumOf(digest) \o <<VersionByte>>
    IN  Base32Encode(onion) \o OnionSuffix
EncodePublicKey(public_key, digest) ==
    LET onion == public_key \o ChecksumOf(digest) \o <<VersionByte>>
    IN  Lower(Base32Encode(onion)) \o OnionSuffix

\* lines 64-69 of expand_secret_key: the three clamping operations on the
\* digest hashlib.sha512 returned (byte 0 is index 1, byte 31 is index 32)
ClampMutNoSet(hash_bytes) ==
    LET l0 == [hash_bytes EXCEPT ![1] = BitAnd(@, 248)]
    IN  [l0 EXCEPT ![32] = BitAnd(@, 127)]
Clamp(hash_bytes) ==
    LET l0 == [hash_bytes EXCEPT ![1] = BitAnd(@, 248)]
        l1 == [l0 EXCEPT ![32] = BitAnd(@, 127)]
    IN  [l1 EXCEPT ![32] = BitOr(@, 64)]

\* line 42: b"== ed25519v1-public: type0 ==\x00\x00\x00"
PublicHeaderMutTwoNul ==
    <<61, 61, 32, 101, 100, 50, 53, 53, 49, 57, 118, 49, 45, 112, 117, 98,
      108, 105, 99, 58, 32, 116, 121, 112, 101, 48, 32, 61, 61, 0, 0>>
PublicHeader ==
    <<61, 61, 32, 101, 100, 50, 53, 53, 49, 57, 118, 49, 45, 112, 117, 98,
      108, 105, 99, 58, 32, 116, 121, 112, 101, 48, 32, 61, 61, 0, 0, 0>>

\* line 43: b"== ed25519v1-secret: type0 ==\x00\x00\x00"
SecretHeader ==
    <<61, 61, 32, 101, 100, 50, 53, 53, 49, 57, 118, 49, 45, 115, 101, 99,
      114, 101, 116, 58, 32, 116, 121, 112, 101, 48, 32, 61, 61, 0, 0, 0>>

\* the byte string of length n that starts with base and goes up by step
Pattern(base, step, n) == [i \in 1..n |-> (base + (i - 1) * step) % 256]

KeyLens == (KeyLen - KeySlack)..(KeyLen + KeySlack)

\* The secret keys the codec is called with; only their length is read, by
\* the hash primitive.
SecretKey(n) == Pattern(7, 1, n)

\* The public keys of length n the codec is called with.
PublicKeys(n) == {Pattern(b, s, n) : b \in {0, 90, 255}, s \in 0..MaxStep}

\* The digests hashlib.sha512 returns in the model: byte 0 and byte 31 take
\* every value.
Sha512Digests ==
    {[i \in 1..Sha512Len |-> IF i = 32 THEN 255 - b ELSE b] : b \in 0..255}

\* The digests hashlib.sha3_256 returns in the model.
Sha3Digests == {Pattern(b, 1, Sha3Len) : b \in {0, 201}}

\* the program of lines 79-245, which a call of the codec leaves alone
programVars ==
    <<mainVars, queueVars, workerVars, periodVars, keyVars, ghostVars, takenVars>>

\* The codec is entered with a key pair (lines 33-34), or with the byte
\* strings a caller of the two static methods passes.
CodecInit ==
    /\ ProgramInit({<<>>}, DefaultThreads)
    /\ cPc = "keys"
    /\ \E n \in KeyLens :
           /\ private_bytes = SecretKey(n)
           /\ public_bytes \in PublicKeys(n)
    /\ expanded_secret_key = <<>>
    /\ checksum = <<>>
    /\ onion_address = <<>>
    /\ public = <<>>
    /\ private = <<>>

\* lines 37, 61-69: expand_secret_key(private_bytes); whatever the length of
\* the key, the digest is taken and clamped
CallExpandSecretKey ==
    /\ cPc = "keys"
    /\ \E hash_bytes \in Sha512Digests :
           expanded_secret_key' = Clamp(hash_bytes)
    /\ cPc' = "expanded"
    /\ UNCHANGED <<private_bytes, public_bytes, checksum, onion_address,
                   public, private>>
    /\ UNCHANGED programVars

\* lines 40, 55-58: encode_public_key(public_bytes); whatever the length of
\* the key, it is encoded
CallEncodePublicKey ==
    /\ cPc = "expanded"
    /\ \E digest \in Sha3Digests :
           /\ checksum' = ChecksumOf(digest)
           /\ onion_address' = EncodePublicKey(public_bytes, digest)
    /\ cPc' = "encoded"
    /\ UNCHANGED <<private_bytes, public_bytes, expanded_secret_key,
                   public, private>>
    /\ UNCHANGED programVars

\* lines 42-51: the two blobs are built and the result is returned
ReturnAddress ==
    /\ cPc = "encoded"
    /\ public' = B64Encode(PublicHeader \o public_bytes)
    /\ private' = B64Encode(SecretHeader \o expanded_secret_key)
    /\ cPc' = "returned"
    /\ UNCHANGED <<private_bytes, public_bytes, expanded_secret_key, checksum,
                   onion_address>>
    /\ UNCHANGED programVars

(* ---------------------------------------------------------- specification *)

\* the steps main() takes by itself
MainStep ==
    \/ MainReject
    \/ MainConfigure
    \/ MainStartMonitors
    \/ MainSpawn
    \/ MainWait
    \/ MainGet
    \/ MainStop
    \/ MainTerminate
    \/ MainBeginJoin
    \/ MainJoin
    \/ MainKill
    \/ MainDone

WorkerStep(w) ==
    \/ WorkerInit(w)
    \/ SignalDefault(w)
    \/ \E h \in Hostnames : Generate(w, h)
    \/ GenerateFail(w)
    \/ Count(w)
    \/ Match(w)
    \/ Report(w)
    \/ Deliver(w)
    \/ Reset(w)
    \/ Check(w)
    \/ Flush(w)
    \/ Clear(w)
    \/ \E h \in Hostnames : SkipAhead(w, h)
    \/ \E sig \in Signals : HandleSignal(w, sig)
    \/ HandlerPut(w)
    \/ HandlerExit(w)
    \/ ExceptPut(w)
    \/ ExceptExit(w)

PeriodicStep ==
    \/ PeriodicLoop
    \/ PeriodicTick
    \/ PeriodicPrint

KeyStep ==
    \/ \E tty \in BOOLEAN : KeyStart(tty)
    \/ KeyStop
    \/ KeyPress
    \/ KeyPrint

Next ==
    \/ MainStep
    \/ \E group \in BOOLEAN : Interrupt(group)
    \/ \E w \in Procs : WorkerStep(w)
    \/ PeriodicStep
    \/ KeyStep

\* every input of the model
Init == InitWith(ArgPrefixLists, ArgThreads)

\* The whole program, run with one prefix list and the default number of
\* processes.
InitDefault == InitWith(OnePrefixList, DefaultThreads)

Spec == InitDefault /\ [][Next]_vars

\* The coordinator and the workers without the two display threads, which
\* only take messages off stats_queue and read stop_event: no step of main or
\* of a worker depends on them.
CoreNext ==
    \/ MainStep
    \/ \E group \in BOOLEAN : Interrupt(group)
    \/ \E w \in Procs : WorkerStep(w)

\* One worker under every prefix list and every signal schedule.
InitSingle == InitWith(ArgPrefixLists, SingleThreads)

WorkerSpec == InitSingle /\ [][CoreNext]_vars

\* The coordinator and a pool of MaxProcs workers; the interrupt reaches main
\* alone and the workers are stopped by terminate().
PoolNext ==
    \/ MainStep
    \/ Interrupt(FALSE)
    \/ \E w \in Procs : WorkerStep(w)

InitPool == InitWith(OnePrefixList, PoolThreads)

PoolSpec == InitPool /\ [][PoolNext]_vars

\* main() is a running thread of a running process: a step it can take, it
\* takes.  Nothing is assumed of the workers or of the operator.
FairPoolSpec == PoolSpec /\ WF_vars(MainStep)

\* One call of generate_address followed through the codec, and the two
\* static methods called with byte strings of other lengths.
CodecNext ==
    \/ CallExpandSecretKey
    \/ CallEncodePublicKey
    \/ ReturnAddress

CodecSpec == CodecInit /\ [][CodecNext]_vars

(* ----------------------------------------------------------------- claims *)

\* what worker w has generated and not yet reported
Unreported(w) == g_gen[w] - g_sent[w]

\* C1: graceful drain is exact.  A worker that has exited after its
\* signal handler ran has put on the stats queue generated deltas that sum
\* to exactly the number of candidates it generated.
C1_GracefulDrainExact ==
    \A w \in Procs :
        (wpc[w] = "exited" /\ g_signalled[w]) => g_sent[w] = g_gen[w]

\* C2: bounded loss on forced termination.  For a worker whose signal
\* handler has not run, whatever its position and also when it was killed,
\* the candidates generated minus the generated deltas emitted is at least 0
\* and at most one batch.
C2_BoundedLoss ==
    \A w \in Procs :
        (wpc[w] # "unspawned" /\ ~g_signalled[w]) =>
            (Unreported(w) >= 0 /\ Unreported(w) <= BatchSize)

\* C2 witness: a worker is killed while it holds a whole unreported batch.
C2_Witness ==
    \E w \in Procs :
        /\ wpc[w] = "killed"
        /\ ~g_signalled[w]
        /\ Unreported(w) = BatchSize

AllWorkersEnded == \A w \in Spawned : wpc[w] \in DeadPcs

\* C3: shutdown always completes.  Once main has received the
\* cancellation signal while waiting for a result it reaches the end of
\* main() with every spawned worker ended, and it is never at the end of
\* main() with a worker alive.
C3_ShutdownCompletes ==
    /\ [](mainPc = "stopped" => AllWorkersEnded)
    /\ (mainPc = "interrupted") ~> (mainPc = "stopped" /\ AllWorkersEnded)

\* C3 witness: main has stopped, one worker left by itself and one
\* was killed after the grace period.
C3_Witness ==
    /\ mainPc = "stopped"
    /\ \E w \in Procs : wpc[w] = "exited"
    /\ \E w \in Procs : wpc[w] = "killed"

\* C4: single aggregator.  When a display thread prints its status
\* line, its totals are the sums of all the deltas taken off the stats queue
\* so far, by either thread.
C4_SingleAggregator ==
    /\ pPc = "print" => <<pGenerated, pFound>> = g_taken
    /\ kPc = "print" => <<kGenerated, kFound>> = g_taken

\* C5: final counts are drained on interrupt.  When main() has
\* ended, no count message that a worker put during the shutdown is left on
\* the stats queue.
C5_FinalCountsDrained ==
    mainPc = "stopped" =>
        \A i \in 1..Len(stats_queue) : ~stats_queue[i].late

\* the numbers of the results of worker w in q, in the order of q
RECURSIVE SeqsOf(_, _)
SeqsOf(q, w) ==
    IF q = <<>> THEN <<>>
    ELSE IF Head(q).worker = w THEN <<Head(q).seq>> \o SeqsOf(Tail(q), w)
    ELSE SeqsOf(Tail(q), w)

InResultQueue(w, n) ==
    \E i \in 1..Len(result_queue) :
        result_queue[i].worker = w /\ result_queue[i].seq = n

WasPrinted(w, n) ==
    \E i \in 1..Len(printed) : printed[i].worker = w /\ printed[i].seq = n

\* the results of each worker, printed and then still queued, are its
\* results 1, 2, ... in the order it put them, each once
ResultsInOrder ==
    \A w \in Procs :
        SeqsOf(printed \o result_queue, w) = [i \in 1..g_results[w] |-> i]

\* C6: result delivery is order-preserving and exactly-once while
\* Running.  The results of one worker are printed in the order it put them,
\* none twice and none skipped, and a result on the queue is printed unless
\* main leaves the Running state.
C6_ResultDelivery ==
    /\ []ResultsInOrder
    /\ \A w \in Procs : \A n \in 1..MaxIter :
           InResultQueue(w, n) ~> (WasPrinted(w, n) \/ mainPc # "running")

\* C6 witness: two results of one worker have been printed.
C6_Witness ==
    /\ Len(printed) = 2
    /\ printed[1].worker = printed[2].worker

\* the first argument, in list order, whose trimmed and lower-cased form the
\* hostname starts with; 0 when there is none
FirstMatchingArg(host) ==
    LET hits == {i \in 1..Len(argPrefixes) :
                    StartsWith(host, Lower(Strip(argPrefixes[i])))}
    IN  IF hits = {} THEN 0
        ELSE CHOOSE i \in hits : \A j \in hits : i <= j

\* C7: prefix matching.  Once the prefixes have been tried on a
\* candidate, the worker reports it if and only if its hostname starts with
\* the trimmed, lower-cased form of one of the arguments, and the prefix that
\* hit is the first such argument in list order.
C7_PrefixMatching ==
    \A w \in Procs :
        (wpc[w] \in {"report", "deliver", "reset", "check", "flush"}
         /\ addr[w] # <<>>) =>
            /\ hit[w] = FirstMatchingArg(addr[w])
            /\ wpc[w] \in {"report", "deliver", "reset"} => hit[w] # 0
            /\ wpc[w] = "check" => (hit[w] # 0 <=> local_generated[w] = 0)

\* C7 witness: a candidate is reported for its second prefix, which
\* the arguments give in a form that had to be normalised.
C7_Witness ==
    \E w \in Procs :
        /\ wpc[w] = "report"
        /\ hit[w] = 2
        /\ prefixes[2] # argPrefixes[2]

Misconfigured ==
    \/ argPrefixes = <<>>
    \/ argThreads # None /\ argThreads[1] <= 0

\* C8 as stated: with a worker-count override of zero or less, or
\* with no prefix, main spawns no worker and does not go past its checks.
C8_ConfigErrorsStop ==
    Misconfigured => (mainPc \in {"start", "exit1"} /\ Spawned = {})

\* C8 as amended: with no prefix main spawns no worker and does not
\* go past its checks; with a prefix and a worker-count override of zero or
\* less, main goes on with the override raised to one, so with worker 0 alone.
C8_ConfigErrorsAmended ==
    /\ argPrefixes = <<>> => (mainPc \in {"start", "exit1"} /\ Spawned = {})
    /\ (argPrefixes # <<>> /\ argThreads # None /\ argThreads[1] <= 0
        /\ mainPc # "start") =>
           (num_processes = 1 /\ Spawned \subseteq {0})

\* C8 witness: an override of zero, and the search running with its
\* one worker.
C8_Witness ==
    /\ argThreads = Some(0)
    /\ mainPc = "running"
    /\ wpc[0] = "generate"

AllWorkersCrashed ==
    /\ mainPc = "running"
    /\ \A w \in Procs : w < num_processes => wpc[w] = "crashed"

\* C9: fatal worker failure propagates.  A worker whose primitive
\* failed stays ended, and once every worker has failed main() ends.
C9_FailurePropagates ==
    /\ [][\A w \in Procs : wpc[w] = "crashed" => wpc'[w] = "crashed"]_vars
    /\ AllWorkersCrashed ~> MainGone

\* C10: the totals are monotonic.  Every message on the stats queue
\* carries non-negative deltas, and no step lowers a total of either display
\* thread.
C10_TotalsMonotonic ==
    /\ [](\A i \in 1..Len(stats_queue) :
             stats_queue[i].gen >= 0 /\ stats_queue[i].found >= 0)
    /\ [][/\ pGenerated' >= pGenerated
          /\ pFound' >= pFound
          /\ kGenerated' >= kGenerated
          /\ kFound' >= kFound]_vars

\* C10 witness: a display thread has added a match report to its
\* totals.
C10_Witness ==
    /\ pGenerated > 0
    /\ pFound > 0

\* the positions of the codec at which expand_secret_key has returned
Expanded == cPc \in {"expanded", "encoded", "returned"}

\* the positions of the codec at which encode_public_key has returned
Encoded == cPc \in {"encoded", "returned"}

\* C11: key clamping.  Whatever digest SHA-512 returned for the secret
\* key, expand_secret_key returns 64 bytes, byte 0 divisible by 8 (low 3 bits
\* clear), byte 31 with bit 7 clear and bit 6 set.
C11_KeyClamping ==
    Expanded =>
        /\ Len(expanded_secret_key) = 64
        /\ \A i \in 1..64 : expanded_secret_key[i] \in 0..255
        /\ expanded_secret_key[1] % 8 = 0
        /\ expanded_secret_key[32] \div 128 = 0
        /\ (expanded_secret_key[32] \div 64) % 2 = 1

\* C11 witness: the digest had all bits of byte 0 set and no bit of
\* byte 31: clamping cleared three bits of the one and set bit 6 of the other.
C11_Witness ==
    /\ cPc = "expanded"
    /\ expanded_secret_key[1] = 248
    /\ expanded_secret_key[32] = 64
    /\ expanded_secret_key[2] = 255

\* the characters of a hostname before its suffix: a-z and 2-7
HostAlphabet == LowerLetters \o <<"2", "3", "4", "5", "6", "7">>

\* the position of character c in the alphabet, from 0
DigitOf(alphabet, c) ==
    (CHOOSE i \in 1..Len(alphabet) : alphabet[i] = c) - 1

\* the number made of the 8 bits from bit k on of a text whose characters
\* stand for w bits each (w at least 4): the bits lie in three characters
DigitBitsFrom(alphabet, w, text, k) ==
    LET j     == k \div w + 1
        at(x) == IF x <= Len(text) THEN DigitOf(alphabet, text[x]) ELSE 0
        three == (at(j) * Pow2(w) + at(j + 1)) * Pow2(w) + at(j + 2)
    IN  (three \div Pow2(3 * w - (k % w) - 8)) % 256

\* the whole bytes that a text without padding stands for
Decode(alphabet, w, text) ==
    [i \in 1..((w * Len(text)) \div 8) |->
        DigitBitsFrom(alphabet, w, text, 8 * (i - 1))]

\* C12: hostname format.  For a public key of 32 bytes the hostname
\* has 62 characters: 56 characters out of a-z and 2-7, none of them "=",
\* that are the base32 form of the 35 bytes public key, checksum, version
\* byte 3, and then ".onion".
C12_HostnameFormat ==
    (Encoded /\ Len(public_bytes) = KeyLen) =>
        /\ Len(onion_address) = 62
        /\ \A i \in 1..56 :
               \E j \in 1..Len(HostAlphabet) : onion_address[i] = HostAlphabet[j]
        /\ SubSeq(onion_address, 57, 62) = <<".", "o", "n", "i", "o", "n">>
        /\ Len(checksum) = 2
        /\ Decode(HostAlphabet, 5, SubSeq(onion_address, 1, 56))
               = public_bytes \o checksum \o <<3>>

\* C12 witness: the hostname of a 32-byte key that is not all one
\* byte, with a letter and a digit in it.
C12_Witness ==
    /\ cPc = "encoded"
    /\ Len(public_bytes) = KeyLen
    /\ public_bytes[1] # public_bytes[2]
    /\ \E i \in 1..56 : onion_address[i] \in {"2", "3", "4", "5", "6", "7"}
    /\ \E i \in 1..56 : onion_address[i] \in {"a", "b", "c", "d", "e", "f"}

\* base64 text decoded: the padding is dropped, the rest gives whole bytes
B64Decode(text) == Decode(B64Alphabet, 6, RStripOf(text, {"="}))

\* C13: blob round trip.  For a key pair of 32-byte keys, the public
\* blob decodes to 32 header bytes, the last three of them NUL, followed by
\* exactly the public key, and the secret blob to 32 header bytes, the last
\* three of them NUL, followed by exactly the 64 bytes of the expanded key.
C13_BlobRoundTrip ==
    (cPc = "returned" /\ Len(public_bytes) = KeyLen
                      /\ Len(private_bytes) = KeyLen) =>
        LET pub == B64Decode(public)
            sec == B64Decode(private)
        IN  /\ Len(pub) = 32 + 32
            /\ SubSeq(pub, 33, Len(pub)) = public_bytes
            /\ SubSeq(pub, 1, 29) = SubSeq(PublicHeader, 1, 29)
            /\ SubSeq(pub, 30, 32) = <<0, 0, 0>>
            /\ Len(sec) = 32 + 64
            /\ SubSeq(sec, 33, Len(sec)) = expanded_secret_key
            /\ SubSeq(sec, 1, 29) = SubSeq(SecretHeader, 1, 29)
            /\ SubSeq(sec, 30, 32) = <<0, 0, 0>>

\* C13 witness: a result for a key pair of 32-byte keys; the public
\* blob, of 64 bytes, ends in padding and the secret blob, of 96, has none.
C13_Witness ==
    /\ cPc = "returned"
    /\ Len(public_bytes) = KeyLen
    /\ Len(private_bytes) = KeyLen
    /\ public_bytes[1] # public_bytes[2]
    /\ Len(public) = 88
    /\ public[88] = "="
    /\ Len(private) = 128
    /\ private[128] # "="

\* C14: key-length contract.  Called with a byte string whose length
\* is not 32, expand_secret_key returns no expanded key and encode_public_key
\* returns no hostname.
C14_KeyLengthContract ==
    /\ (Expanded /\ Len(private_bytes) # 32) => expanded_secret_key = <<>>
    /\ (Encoded /\ Len(public_bytes) # 32) => onion_address = <<>>

\* the count message a step has just put on the stats queue
LastPut == stats_queue'[Len(stats_queue')]

\* C15: match emission.  A step that raises the found count of a
\* worker puts one message (its buffer, 1), the buffer being what it has
\* generated since its last report, for a candidate that starts with a
\* prefix; a step that puts a result does so for such a candidate.  Results
\* and found reports never outnumber the matching candidates, and when the
\* worker is past the prefix loop it has reported and delivered each matching
\* candidate exactly once, whatever number of prefixes the candidate starts
\* with, and its buffer is 0 if the candidate matched.
C15_MatchEmission ==
    /\ [](\A w \in Procs :
            /\ g_results[w] <= g_found[w]
            /\ g_found[w] <= g_matched[w]
            /\ wpc[w] = "check" =>
                  /\ g_found[w] = g_matched[w]
                  /\ g_results[w] = g_matched[w]
                  /\ hit[w] # 0 => local_generated[w] = 0)
    /\ [][\A w \in Procs :
            g_found'[w] # g_found[w] =>
                /\ FirstHit(addr[w], prefixes) # 0
                /\ g_found'[w] = g_found[w] + 1
                /\ Len(stats_queue') = Len(stats_queue) + 1
                /\ LastPut.gen = local_generated[w]
                /\ LastPut.found = 1
                /\ local_generated[w] = g_gen[w] - g_sent[w]]_vars
    /\ [][\A w \in Procs :
            g_results'[w] # g_results[w] =>
                /\ FirstHit(addr[w], prefixes) # 0
                /\ g_results'[w] = g_results[w] + 1
                /\ Len(result_queue') = Len(result_queue) + 1]_vars

\* C15 witness: a candidate that starts with both prefixes has been
\* reported once and delivered once, and the worker is past the prefix loop.
C15_Witness ==
    \E w \in Procs :
        /\ wpc[w] = "check"
        /\ hit[w] = 1
        /\ Len(prefixes) = 2
        /\ StartsWith(addr[w], prefixes[1])
        /\ StartsWith(addr[w], prefixes[2])
        /\ g_matched[w] = 1
        /\ g_found[w] = 1
        /\ g_results[w] = 1

\* C16: batched reporting.  A worker about to put the count message
\* of line 107 (found = 0) holds a buffer of exactly one batch, and no message
\* on the stats queue is the empty (0, 0).
C16_BatchedReporting ==
    /\ \A w \in Procs : wpc[w] = "flush" => local_generated[w] = BatchSize
    /\ \A i \in 1..Len(stats_queue) :
           ~(stats_queue[i].gen = 0 /\ stats_queue[i].found = 0)

\* the positions of a worker between the report of a match and the next
\* candidate
AfterMatchPcs == {"report", "deliver", "reset", "check", "flush", "clear"}

\* the coordinator has received the cancellation signal
Cancelled == mainPc \in ShutdownPcs \cup {"stopped"}

\* C17: the search continues after a match.  A step that puts a
\* result leaves the worker in its loop and main where it is; from the report
\* of a match up to the next candidate a worker stays in its loop unless its
\* signal handler starts or it is killed, both only once main was cancelled;
\* printing a result leaves main waiting for the next one, and main leaves
\* the waiting loop only by the cancellation signal.
C17_SearchContinues ==
    /\ [][\A w \in Procs :
            g_results'[w] # g_results[w] =>
                (wpc'[w] \in TryPcs /\ mainPc' = mainPc)]_vars
    /\ [][\A w \in Procs :
            (wpc[w] \in AfterMatchPcs /\ wpc'[w] \notin TryPcs) =>
                (wpc'[w] \in {"h_put", "killed"} /\ Cancelled)]_vars
    /\ [][printed' # printed => (mainPc = "running" /\ mainPc' = "running")]_vars
    /\ [][(mainPc = "running" /\ mainPc' # "running") =>
             mainPc' = "interrupted"]_vars

\* C17 witness: a result has been printed, main waits for the next
\* one and the worker that found it has generated its next candidate.
C17_Witness ==
    \E w \in Procs :
        /\ mainPc = "running"
        /\ Len(printed) = 1
        /\ printed[1].worker = w
        /\ g_results[w] = 1
        /\ wpc[w] = "count"

\* C18: found count and results agree.  A worker has never put more
\* results than it has reported found, and once it has exited after its
\* signal handler ran the two numbers are equal.
C18_FoundAgreesWithResults ==
    \A w \in Procs :
        /\ g_results[w] <= g_found[w]
        /\ (wpc[w] = "exited" /\ g_signalled[w]) => g_results[w] = g_found[w]

====
